---- MODULE Spec2Model ----
(***************************************************************************)
(* A model of src/main.py: the loose-object reader, the commit and tree    *)
(* decoders, the history walk, the first-parent tree diff, the full-tree   *)
(* enumeration, the dependency-graph builder and the DOT edge rules.       *)
(*                                                                         *)
(* Conventions.                                                            *)
(*   - A commit hash is a string ("c1", "c2", ...).  A hash that names no  *)
(*     object in the store is NoObject.                                    *)
(*   - Tree and blob hashes are content hashes, so a tree or blob hash is  *)
(*     modelled by the object it addresses (equal hash <=> equal object).  *)
(*   - A path and a name are sequences of one-character strings; "/" is a  *)
(*     character like any other and split/join work on characters.         *)
(*   - A Python dict is a sequence of <<key, value>> pairs in insertion    *)
(*     order with pairwise distinct keys.                                  *)
(*   - A fallible call returns [err, val]; err is "none" or the Python     *)
(*     exception class raised.                                             *)
(***************************************************************************)
EXTENDS Integers, Sequences, FiniteSets, TLC

VARIABLES
    fs,             \* the files main.py tests: repo dir, .git dir, HEAD, the ref file
    objects,        \* the commit objects of the store: hash -> lines of the body
    pc,             \* where main() is
    commits,        \* get_commit_history: commits
    visited,        \* get_commit_history: visited
    stack,          \* get_commit_history: stack
    graph_data,     \* build_dependency_graph: graph_data
    idx,            \* build_dependency_graph: position of the for loop in commits
    dot,            \* generate_dot_file: the node and edge statements written
    expanded,       \* history: how often get_commit_info decoded each hash
    calls,          \* history: arguments of get_commit_changes / get_all_files_and_dirs calls
    tree_input,     \* tree round trip: the (mode, name, hash) triples encoded
    content,        \* tree round trip: the encoded tree body (bytes)
    entries         \* tree round trip: what read_tree's loop returned

vars == <<fs, objects, pc, commits, visited, stack, graph_data, idx, dot,
          expanded, calls, tree_input, content, entries>>

----------------------------------------------------------------------------
(* Bounds of the model *)

NumCommits == 2
MaxParentLines == 3
MaxBuildParents == 2
MaxEntries == 2

(* Program constants *)

HashLen == 20

----------------------------------------------------------------------------
(* Generic helpers *)

Range(s) == {s[i] : i \in 1..Len(s)}

Min(a, b) == IF a < b THEN a ELSE b

\* Python's s[a:b] with 0-based a, b (clipped at the end of s)
Slice(s, a, b) == SubSeq(s, a + 1, Min(b, Len(s)))

\* every ordering of a finite set: the order in which Python iterates a set
Orderings(S) ==
    {f \in [1..Cardinality(S) -> S] : \A i, j \in 1..Cardinality(S) : i # j => f[i] # f[j]}

Ok(v) == [err |-> "none", val |-> v]
Raise(e) == [err |-> e, val |-> <<>>]

----------------------------------------------------------------------------
(* Paths: str.split('/') and '/'.join *)

RECURSIVE SplitFrom(_, _, _)
SplitFrom(path, i, cur) ==
    IF i > Len(path) THEN <<cur>>
    ELSE IF path[i] = "/" THEN <<cur>> \o SplitFrom(path, i + 1, <<>>)
    ELSE SplitFrom(path, i + 1, Append(cur, path[i]))

Split(path) == SplitFrom(path, 1, <<>>)

RECURSIVE Join(_)
Join(parts) ==
    IF Len(parts) = 0 THEN <<>>
    ELSE IF Len(parts) = 1 THEN parts[1]
    ELSE parts[1] \o <<"/">> \o Join(Tail(parts))

\* for i in range(1, len(parts)): d = '/'.join(parts[:i])
AncestorDirs(path) ==
    LET parts == Split(path)
    IN  {Join(SubSeq(parts, 1, i)) : i \in 1..(Len(parts) - 1)}

\* parent_directory returns Optional[str]
None == [some |-> FALSE, str |-> <<>>]
Some(s) == [some |-> TRUE, str |-> s]

parent_directory(path) ==
    LET parts == Split(path)
    IN  IF Len(parts) > 1 THEN Some(Join(SubSeq(parts, 1, Len(parts) - 1)))
        ELSE None

\* Python truthiness of an Optional[str]: None and "" are false
Truthy(o) == o.some /\ o.str # <<>>

----------------------------------------------------------------------------
(* The object store *)

ShaNames == <<"c1", "c2", "c3", "c4">>
Commit == {ShaNames[i] : i \in 1..NumCommits}
NoObject == "c0"

\* lines of a commit body
TreeLine(t) == [key |-> "tree", sha |-> "", tree |-> t]
ParentLine(h) == [key |-> "parent", sha |-> h, tree |-> <<>>]
BlankLine == [key |-> "", sha |-> "", tree |-> <<>>]

\* objects other than commits, addressed by content
Blob(i) == [type |-> "blob", ent |-> <<>>, id |-> i]
Tree(ent) == [type |-> "tree", ent |-> ent, id |-> 0]
MissingObject == [type |-> "missing", ent |-> <<>>, id |-> 0]
BadHeaderObject == [type |-> "badheader", ent |-> <<>>, id |-> 0]
NoHash == [type |-> "None", ent |-> <<>>, id |-> 0]

\* read_git_object followed by parse_git_object on a tree or blob hash:
\* a missing file raises RuntimeError (line 17); a header that does not split
\* into exactly two words raises ValueError (line 31)
parse_git_object(obj) ==
    IF obj.type = "missing" THEN Raise("RuntimeError")
    ELSE IF obj.type = "badheader" THEN Raise("ValueError")
    ELSE Ok(obj)

----------------------------------------------------------------------------
(* Commit decoding for the history walk *)

\* get_commit_info, lines 47-50: every line of the body that starts with
\* "parent " contributes line.split(' ')[1]; the loop has no break
RECURSIVE ParentsOfLines(_, _)
ParentsOfLines(lines, i) ==
    IF i > Len(lines) THEN <<>>
    ELSE IF lines[i].key = "parent"
         THEN <<lines[i].sha>> \o ParentsOfLines(lines, i + 1)
         ELSE ParentsOfLines(lines, i + 1)

\* get_commit_info: read_git_object raises RuntimeError when the object file
\* is absent; otherwise the 'parent' list of commit_info (the walk reads no
\* other field; 'author' and 'date' are left out)
get_commit_info(store, commit_sha) ==
    IF commit_sha \notin DOMAIN store THEN Raise("RuntimeError")
    ELSE Ok(ParentsOfLines(store[commit_sha], 1))

----------------------------------------------------------------------------
(* get_commit_history *)

\* mutant: the visited test of lines 85-86 is missing
AlreadyVisited_never(commit_sha, vis) == FALSE

\* lines 85-86: if commit_sha in visited: continue
AlreadyVisited(commit_sha, vis) == commit_sha \in vis

\* lines 91-93: for parent in parents: if parent and parent not in visited: push
RECURSIVE PushParents(_, _, _)
PushParents(stk, parents, vis) ==
    IF parents = <<>> THEN stk
    ELSE PushParents(
            IF Head(parents) # "" /\ Head(parents) \notin vis
            THEN Append(stk, Head(parents)) ELSE stk,
            Tail(parents), vis)

\* lines 63-79: the checks and the resolution of HEAD
ResolveHead(f) ==
    IF ~f.git THEN Raise("RuntimeError")
    ELSE IF f.head = "absent" THEN Raise("RuntimeError")
    ELSE IF f.head = "ref"
         THEN IF f.ref = "absent" THEN Raise("RuntimeError") ELSE Ok(f.ref)
         ELSE Ok(f.head)

EmptyGraphData == [commits |-> <<>>, files |-> {}, dirs |-> {}]
EmptyDot == [nodes |-> {}, edges |-> {}]

\* mutant: the except branch of lines 324-326 does not exit and main goes on
\* with no commits
Main_noExit ==
    /\ pc = "main"
    /\ LET r == ResolveHead(fs)
       IN  /\ commits' = <<>>
           /\ visited' = {}
           /\ IF ~fs.repo \/ r.err # "none"
              THEN /\ pc' = "build"
                   /\ stack' = <<>>
                   /\ idx' = 1
              ELSE /\ pc' = "walk"
                   /\ stack' = <<r.val>>
                   /\ idx' = idx
    /\ UNCHANGED <<fs, objects, graph_data, dot, expanded, calls,
                   tree_input, content, entries>>

\* main, lines 319-326, with get_commit_history up to the loop (lines 63-82)
Main ==
    /\ pc = "main"
    /\ LET r == ResolveHead(fs)
       IN  IF ~fs.repo \/ r.err # "none"
           THEN /\ pc' = "exit1"
                /\ UNCHANGED <<commits, visited, stack>>
           ELSE /\ pc' = "walk"
                /\ commits' = <<>>
                /\ visited' = {}
                /\ stack' = <<r.val>>
    /\ UNCHANGED <<fs, objects, graph_data, idx, dot, expanded, calls,
                   tree_input, content, entries>>

\* one iteration of the while loop, lines 83-93; the RuntimeError of
\* get_commit_info leaves get_commit_history and main exits (lines 324-326)
WalkStep ==
    /\ pc = "walk"
    /\ stack # <<>>
    /\ LET commit_sha == stack[Len(stack)]
           popped == SubSeq(stack, 1, Len(stack) - 1)
       IN  IF AlreadyVisited(commit_sha, visited)
           THEN /\ stack' = popped
                /\ UNCHANGED <<pc, commits, visited, expanded>>
           ELSE LET commit_info == get_commit_info(objects, commit_sha)
                    vis == visited \cup {commit_sha}
                IN  /\ visited' = vis
                    /\ commits' = Append(commits, commit_sha)
                    /\ expanded' = [expanded EXCEPT ![commit_sha] = @ + 1]
                    /\ IF commit_info.err # "none"
                       THEN /\ pc' = "exit1"
                            /\ stack' = popped
                       ELSE /\ pc' = pc
                            /\ stack' = PushParents(popped, commit_info.val, vis)
    /\ UNCHANGED <<fs, objects, graph_data, idx, dot, calls,
                   tree_input, content, entries>>

\* line 94 and main, lines 327-330: an empty history exits, otherwise
\* build_dependency_graph starts with an empty graph_data (lines 209-213)
WalkReturn ==
    /\ pc = "walk"
    /\ stack = <<>>
    /\ IF commits = <<>>
       THEN pc' = "exit1" /\ UNCHANGED <<graph_data, idx>>
       ELSE pc' = "build" /\ graph_data' = EmptyGraphData /\ idx' = 1
    /\ UNCHANGED <<fs, objects, commits, visited, stack, dot, expanded, calls,
                   tree_input, content, entries>>

----------------------------------------------------------------------------
(* Dicts *)

DictKeys(d) == {d[i][1] : i \in 1..Len(d)}

\* d.get(k): None for an absent key
DictGet(d, k) ==
    IF k \in DictKeys(d) THEN d[CHOOSE i \in 1..Len(d) : d[i][1] = k][2] ELSE NoHash

\* d[k] = v: a new key goes last, an old key keeps its place
DictSet(d, k, v) ==
    IF k \in DictKeys(d)
    THEN [i \in 1..Len(d) |-> IF d[i][1] = k THEN <<k, v>> ELSE d[i]]
    ELSE Append(d, <<k, v>>)

----------------------------------------------------------------------------
(* read_tree, diff_trees, get_commit_changes *)

\* read_tree, line 117 over the records the loop decodes: entries[name] = object_hash
\* (a record is <<mode, name, hash>>; the mode is not stored)
RECURSIVE TreeDict(_, _, _)
TreeDict(records, i, d) ==
    IF i > Len(records) THEN d
    ELSE TreeDict(records, i + 1, DictSet(d, records[i][2], records[i][3]))

\* read_tree, lines 97-101 and 118, on a tree hash of the store
read_tree(tree_sha) ==
    LET r == parse_git_object(tree_sha)
    IN  IF r.err # "none" THEN r
        ELSE IF r.val.type # "tree" THEN Raise("RuntimeError")
        ELSE Ok(TreeDict(r.val.ent, 1, <<>>))

\* diff_trees: the keys of either dict whose .get() values differ, as a list
\* in the iteration order of a set (every order is possible)
diff_trees(parent_tree, current_tree) ==
    Orderings({key \in DictKeys(parent_tree) \cup DictKeys(current_tree) :
                  DictGet(parent_tree, key) # DictGet(current_tree, key)})

\* the loops of lines 141-148, 159-163 and 181-185: the last "tree " line and
\* the "parent " lines before the first blank line
RECURSIVE ScanHeader(_, _, _)
ScanHeader(lines, i, acc) ==
    IF i > Len(lines) THEN acc
    ELSE IF lines[i].key = "tree"
         THEN ScanHeader(lines, i + 1, [acc EXCEPT !.tree_hash = lines[i].tree])
    ELSE IF lines[i].key = "parent"
         THEN ScanHeader(lines, i + 1, [acc EXCEPT !.parents = Append(@, lines[i].sha)])
    ELSE IF lines[i].key = "" THEN acc
    ELSE ScanHeader(lines, i + 1, acc)

NoHeader == [tree_hash |-> NoHash, parents |-> <<>>]

\* mutant: the last parent is diffed instead of the first
FirstParent_last(parents) == parents[Len(parents)]

\* line 152: parent_commit = parents[0]
FirstParent(parents) == parents[1]

\* get_commit_changes: Ok(the lists diff_trees may return) or the exception
get_commit_changes(store, commit_hash) ==
    IF commit_hash \notin DOMAIN store THEN Raise("RuntimeError")
    ELSE
    LET h == ScanHeader(store[commit_hash], 1, NoHeader)
    IN  IF h.tree_hash = NoHash THEN Raise("RuntimeError")
        ELSE
        LET parent_tree ==
                IF h.parents # <<>>
                THEN LET parent_commit == FirstParent(h.parents)
                     IN  IF parent_commit \notin DOMAIN store THEN Raise("RuntimeError")
                         ELSE LET hp == ScanHeader(store[parent_commit], 1, NoHeader)
                              IN  IF hp.tree_hash = NoHash THEN Raise("RuntimeError")
                                  ELSE read_tree(hp.tree_hash)
                ELSE Ok(<<>>)
        IN  IF parent_tree.err # "none" THEN parent_tree
            ELSE LET current_tree == read_tree(h.tree_hash)
                 IN  IF current_tree.err # "none" THEN current_tree
                     ELSE Ok(diff_trees(parent_tree.val, current_tree.val))

----------------------------------------------------------------------------
(* get_all_files_and_dirs *)

NoPaths == [err |-> "none", files |-> {}, dirs |-> {}]
PathsRaise(e) == [err |-> e, files |-> {}, dirs |-> {}]

\* traverse_tree, lines 190-204; TraverseEntries is its for loop from entry k on
RECURSIVE traverse_tree(_, _), TraverseEntries(_, _, _, _)
traverse_tree(t_hash, prefix) ==
    LET t_data == read_tree(t_hash)
    IN  IF t_data.err # "none" THEN PathsRaise(t_data.err)
        ELSE TraverseEntries(t_data.val, 1, prefix, NoPaths)

TraverseEntries(t_data, k, prefix, acc) ==
    IF k > Len(t_data) THEN acc
    ELSE
    LET name == t_data[k][1]
        obj == parse_git_object(t_data[k][2])
        path == IF prefix = <<>> THEN name ELSE prefix \o <<"/">> \o name
    IN  IF obj.err # "none" THEN PathsRaise(obj.err)
        ELSE IF obj.val.type = "tree"
        THEN LET sub == traverse_tree(t_data[k][2], path)
             IN  IF sub.err # "none" THEN sub
                 ELSE TraverseEntries(t_data, k + 1, prefix,
                        [acc EXCEPT !.dirs = @ \cup {path} \cup sub.dirs,
                                    !.files = @ \cup sub.files])
        ELSE TraverseEntries(t_data, k + 1, prefix,
                [acc EXCEPT !.files = @ \cup {path},
                            !.dirs = @ \cup AncestorDirs(path)])

get_all_files_and_dirs(store, commit_hash) ==
    IF commit_hash \notin DOMAIN store THEN PathsRaise("RuntimeError")
    ELSE
    LET h == ScanHeader(store[commit_hash], 1, NoHeader)
    IN  IF h.tree_hash = NoHash THEN PathsRaise("RuntimeError")
        ELSE traverse_tree(h.tree_hash, <<>>)

----------------------------------------------------------------------------
(* build_dependency_graph *)

\* lines 222-227 (and 231-236): each name joins files, its ancestors join dirs
AddFiles(gd, names) ==
    [gd EXCEPT !.files = @ \cup names,
               !.dirs = @ \cup UNION {AncestorDirs(f) : f \in names}]

\* line 221: graph_data["commits"][commit] = {"files": changed_files}
RecordCommit(gd, commit, changed_files) ==
    [gd EXCEPT !.commits = [c \in DOMAIN @ \cup {commit} |->
                               IF c = commit THEN [files |-> changed_files] ELSE @[c]]]

\* mutant: the enumeration is seeded at the last walked commit
EnumSeed_last(cs) == cs[Len(cs)]

\* line 230: the commit handed to get_all_files_and_dirs
EnumSeed(cs) == cs[1]

\* one iteration of the for loop, lines 215-227: only RuntimeError is caught
BuildCommit ==
    /\ pc = "build"
    /\ idx <= Len(commits)
    /\ LET commit == commits[idx]
           r == get_commit_changes(objects, commit)
       IN  /\ calls' = [calls EXCEPT !.diff = Append(@, commit)]
           /\ IF r.err = "none"
              THEN \E changed_files \in r.val :
                      /\ graph_data' = AddFiles(RecordCommit(graph_data, commit, changed_files),
                                                Range(changed_files))
                      /\ idx' = idx + 1
                      /\ pc' = pc
              ELSE IF r.err = "RuntimeError"
              THEN /\ graph_data' = RecordCommit(graph_data, commit, <<>>)
                   /\ idx' = idx + 1
                   /\ pc' = pc
              ELSE /\ pc' = "crash"
                   /\ UNCHANGED <<graph_data, idx>>
    /\ UNCHANGED <<fs, objects, commits, visited, stack, dot, expanded,
                   tree_input, content, entries>>

\* lines 229-240: outside the try, so any exception leaves build_dependency_graph
BuildEnumerate ==
    /\ pc = "build"
    /\ idx > Len(commits)
    /\ IF commits # <<>>
       THEN LET seed == EnumSeed(commits)
                r == get_all_files_and_dirs(objects, seed)
            IN  /\ calls' = [calls EXCEPT !.enum = Append(@, seed)]
                /\ IF r.err = "none"
                   THEN /\ graph_data' = [AddFiles(graph_data, r.files)
                                            EXCEPT !.dirs = @ \cup r.dirs]
                        /\ pc' = "dot"
                   ELSE /\ pc' = "crash"
                        /\ UNCHANGED graph_data
       ELSE pc' = "dot" /\ UNCHANGED <<graph_data, calls>>
    /\ UNCHANGED <<fs, objects, commits, visited, stack, idx, dot, expanded,
                   tree_input, content, entries>>

----------------------------------------------------------------------------
(* generate_dot_file *)

\* the key of a commit node: the hash as a string
CommitKey(c) == <<c>>

\* lines 255-266: the node statements
DotNodes(gd) == {CommitKey(c) : c \in DOMAIN gd.commits} \cup gd.dirs \cup gd.files

\* mutant: the else branch of lines 276-278 is missing
EdgeTarget_noRootCase(file_name) == parent_directory(file_name).str

\* lines 273-278: a commit's edge goes to the parent directory of the changed
\* name, or to the name itself when it has none
EdgeTarget(file_name) ==
    LET pdir == parent_directory(file_name)
    IN  IF Truthy(pdir) THEN pdir.str ELSE file_name

\* lines 283-285 and 290-292: parent directory -> directory, -> file
ChildEdges(paths) ==
    {<<parent_directory(x).str, x>> : x \in {y \in paths : Truthy(parent_directory(y))}}

\* lines 270-292: the edge statements
DotEdges(gd) ==
    UNION {{<<CommitKey(c), EdgeTarget(gd.commits[c].files[i])>> :
               i \in 1..Len(gd.commits[c].files)} : c \in DOMAIN gd.commits}
    \cup ChildEdges(gd.dirs)
    \cup ChildEdges(gd.files)

GenerateDot ==
    /\ pc = "dot"
    /\ dot' = [nodes |-> DotNodes(graph_data), edges |-> DotEdges(graph_data)]
    /\ pc' = "done"
    /\ UNCHANGED <<fs, objects, commits, visited, stack, graph_data, idx, expanded,
                   calls, tree_input, content, entries>>

----------------------------------------------------------------------------
(* The repositories the model starts from *)

\* a repository's parent lines: per commit the hashes of the "parent " lines
\* of the header (hdr) and of "parent "-prefixed lines of the message (msg)
NoLines == [c \in Commit |-> [hdr |-> <<>>, msg |-> <<>>]]

RECURSIVE Closure(_, _)
Closure(g, S) ==
    LET T == S \cup UNION {Range(g[c].hdr) \cup Range(g[c].msg) : c \in S}
    IN  IF T = S THEN S ELSE Closure(g, T)

AddLine(g, c, sec, h) ==
    IF sec = "hdr" THEN [g EXCEPT ![c].hdr = Append(@, h)]
    ELSE [g EXCEPT ![c].msg = Append(@, h)]

\* all repositories with at most k parent lines, every line in a commit that
\* the lines before it connect to head (the rest of the store is never read)
RECURSIVE Graphs(_, _, _)
Graphs(head, k, secs) ==
    IF k = 0 THEN {NoLines}
    ELSE LET G == Graphs(head, k - 1, secs)
         IN  G \cup UNION {{AddLine(g, c, sec, h) :
                               c \in Closure(g, {head}), sec \in secs, h \in Commit}
                           : g \in G}

ParentLines(hs) == [i \in 1..Len(hs) |-> ParentLine(hs[i])]

\* a commit body: tree line, parent lines, blank line, message
Body(t, l) == <<TreeLine(t)>> \o ParentLines(l.hdr) \o <<BlankLine>> \o ParentLines(l.msg)

OneFileTree == Tree(<<  <<"100644", <<"a">>, Blob(1)>>  >>)

ValidFs(h) == [repo |-> TRUE, git |-> TRUE, head |-> "ref", ref |-> h]

Idle ==
    /\ commits = <<>> /\ visited = {} /\ stack = <<>>
    /\ graph_data = EmptyGraphData /\ idx = 0 /\ dot = EmptyDot
    /\ expanded = [h \in Commit \cup {NoObject} |-> 0]
    /\ calls = [diff |-> <<>>, enum |-> <<>>]
    /\ tree_input = <<>> /\ content = <<>> /\ entries = <<>>

InitWalk ==
    /\ pc = "main"
    /\ fs = ValidFs("c1")
    /\ \E g \in Graphs("c1", MaxParentLines, {"hdr", "msg"}) :
          objects = [c \in Commit |-> Body(OneFileTree, g[c])]
    /\ Idle

NextWalk == Main \/ WalkStep \/ WalkReturn

SpecWalk == InitWalk /\ [][NextWalk]_vars

\* the loop body runs whenever the stack is not empty
FairSpecWalk == SpecWalk /\ WF_vars(WalkStep) /\ WF_vars(WalkReturn) /\ WF_vars(Main)

----------------------------------------------------------------------------
(* What the commit format says a commit's parents are: the "parent " lines *)
(* of the header, i.e. of the lines before the first blank line.           *)

FirstBlank(lines) ==
    IF \E i \in 1..Len(lines) : lines[i].key = ""
    THEN CHOOSE i \in 1..Len(lines) :
            /\ lines[i].key = ""
            /\ \A j \in 1..(i - 1) : lines[j].key # ""
    ELSE Len(lines) + 1

HeaderParentLinks(c) ==
    {objects[c][i].sha : i \in {j \in 1..(FirstBlank(objects[c]) - 1) : objects[c][j].key = "parent"}}

MessageHashes(c) ==
    {objects[c][i].sha : i \in {j \in (FirstBlank(objects[c]) + 1)..Len(objects[c]) : objects[c][j].key = "parent"}}

RECURSIVE ReachableVia(_)
ReachableVia(S) ==
    LET T == S \cup UNION {HeaderParentLinks(c) : c \in S \cap DOMAIN objects}
    IN  IF T = S THEN S ELSE ReachableVia(T)

HeadCommit == ResolveHead(fs).val
Reachable == ReachableVia({HeadCommit})

WalkReturned == pc = "build"

NoDuplicates(s) == \A i, j \in 1..Len(s) : i # j => s[i] # s[j]

----------------------------------------------------------------------------
(* C1: the sequence get_commit_history returns holds every commit reachable *)
(* from the head through parent links exactly once and nothing else.        *)
C1_WalkIsReachableSet ==
    WalkReturned =>
        /\ Range(commits) = Reachable
        /\ NoDuplicates(commits)
        /\ Len(commits) = Cardinality(Reachable)

(* C6: a hash that occurs only in a commit message (after the first blank   *)
(* line), never as a header parent and not as the head, is never pushed on  *)
(* the stack and never visited by the walk.                                 *)
OnlyInMessage(h) ==
    /\ h # HeadCommit
    /\ \E c \in DOMAIN objects : h \in MessageHashes(c)
    /\ \A c \in DOMAIN objects : h \notin HeaderParentLinks(c)

C6_MessageLinesIgnored ==
    \A h \in visited \cup Range(stack) : ~OnlyInMessage(h)

(* C10: the walk decodes each hash at most once and its loop ends, for      *)
(* every store whose parents all resolve, cycles and repeated parents       *)
(* included.                                                                *)
ExpandedAtMostOnce == \A h \in DOMAIN expanded : expanded[h] <= 1

C10_WalkTerminates == []ExpandedAtMostOnce /\ <>(pc \in {"build", "exit1"})

\* a commit that reaches itself, and a commit that names one parent twice
HasCycle ==
    \E c \in Commit : c \in Closure([d \in Commit |->
                             [hdr |-> ParentsOfLines(objects[d], 1), msg |-> <<>>]],
                           Range(ParentsOfLines(objects[c], 1)))

HasRepeatedParent ==
    \E c \in Commit : ~NoDuplicates(ParentsOfLines(objects[c], 1))

C10_Witness ==
    /\ WalkReturned
    /\ HasCycle
    /\ HasRepeatedParent
    /\ Len(commits) = NumCommits

----------------------------------------------------------------------------
(* The runs of main: repositories with varied trees, and varied HEAD files *)

FileA(i) == <<"100644", <<"a">>, Blob(i)>>
SubTree1 == Tree(<<  <<"100644", <<"b">>, Blob(1)>>  >>)
SubTree2 == Tree(<<  <<"100644", <<"a">>, Blob(2)>>, <<"40000", <<"d">>, SubTree1>>  >>)
DirD(t) == <<"40000", <<"d">>, t>>

\* the objects a commit's tree line may name: trees over the names a (a blob)
\* and d (a subtree), a hash with no object file, an object with a bad header
TopTrees ==
    {Tree(e) : e \in {<<>>}
                 \cup {<<FileA(i)>> : i \in {1, 2}}
                 \cup {<<DirD(t)>> : t \in {SubTree1, SubTree2}}
                 \cup {<<FileA(1), DirD(SubTree1)>>, <<FileA(2), DirD(SubTree2)>>}}
    \cup {MissingObject, BadHeaderObject}

InitBuild ==
    /\ pc = "main"
    /\ fs = ValidFs("c1")
    /\ \E g \in Graphs("c1", MaxBuildParents, {"hdr"}) :
          \E t \in [Closure(g, {"c1"}) -> TopTrees] :
             objects = [c \in Commit |->
                          Body(IF c \in DOMAIN t THEN t[c] ELSE OneFileTree, g[c])]
    /\ Idle

HeadFiles ==
    {[repo |-> FALSE, git |-> TRUE, head |-> "ref", ref |-> "c1"],
     [repo |-> TRUE, git |-> FALSE, head |-> "ref", ref |-> "c1"],
     [repo |-> TRUE, git |-> TRUE, head |-> "absent", ref |-> "c1"],
     [repo |-> TRUE, git |-> TRUE, head |-> "ref", ref |-> "absent"]}
    \cup {[repo |-> TRUE, git |-> TRUE, head |-> "ref", ref |-> h] : h \in Commit \cup {NoObject}}
    \cup {[repo |-> TRUE, git |-> TRUE, head |-> h, ref |-> "absent"] : h \in Commit \cup {NoObject}}

InitMain ==
    /\ pc = "main"
    /\ fs \in HeadFiles
    /\ LET r == ResolveHead(fs)
       IN  \E g \in (IF r.err = "none" /\ r.val \in Commit
                     THEN Graphs(r.val, 1, {"hdr"}) ELSE {NoLines}) :
              objects = [c \in Commit |-> Body(OneFileTree, g[c])]
    /\ Idle

Init == InitBuild \/ InitMain

Next == Main \/ WalkStep \/ WalkReturn \/ BuildCommit \/ BuildEnumerate \/ GenerateDot

Spec == Init /\ [][Next]_vars

----------------------------------------------------------------------------
(* What the formats say: a commit's tree and first parent, a tree's mapping *)

HeaderIndexes(c, k) == {i \in 1..(FirstBlank(objects[c]) - 1) : objects[c][i].key = k}

SetMin(S) == CHOOSE x \in S : \A y \in S : x <= y
SetMax(S) == CHOOSE x \in S : \A y \in S : x >= y

TreeOfCommit(c) == objects[c][SetMin(HeaderIndexes(c, "tree"))].tree

EmptyTree == Tree(<<>>)

\* the tree the diff compares against: the first parent's, or the empty mapping
BaseTree(c) ==
    IF HeaderIndexes(c, "parent") = {} THEN EmptyTree
    ELSE TreeOfCommit(objects[c][SetMin(HeaderIndexes(c, "parent"))].sha)

\* name -> hash mapping of a tree's top level (NoHash: the name is absent)
TopLevel(t, n) ==
    LET S == {i \in 1..Len(t.ent) : t.ent[i][2] = n}
    IN  IF S = {} THEN NoHash ELSE t.ent[SetMax(S)][3]

AllNames == {<<"a">>, <<"b">>, <<"d">>}

Disagree(t1, t2) == {n \in AllNames : TopLevel(t1, n) # TopLevel(t2, n)}

\* the diff of c decodes: its own tree and the tree it is compared against
DiffDecodes(c) == TreeOfCommit(c).type = "tree" /\ BaseTree(c).type = "tree"

Recorded == DOMAIN graph_data.commits

----------------------------------------------------------------------------
(* C2: every endpoint of every emitted edge is the key of a node of the     *)
(* same graph (a commit, a directory or a file): no dangling edges.         *)
C2_NoDanglingEdges ==
    pc = "done" =>
        /\ dot.nodes = {CommitKey(c) : c \in Recorded}
                         \cup graph_data.dirs \cup graph_data.files
        /\ \A e \in dot.edges : e[1] \in dot.nodes /\ e[2] \in dot.nodes

\* a graph with a commit -> name edge, a directory -> directory edge and a
\* directory -> file edge
C2_Witness ==
    /\ pc = "done"
    /\ \E e \in dot.edges : e[1] \in {CommitKey(c) : c \in Recorded}
    /\ \E e \in dot.edges : e[1] \in graph_data.dirs /\ e[2] \in graph_data.dirs
    /\ \E e \in dot.edges : e[1] \in graph_data.dirs /\ e[2] \in graph_data.files

(* C3: the names a commit's diff records are exactly the top-level names on *)
(* which the commit's tree and its first parent's tree (the empty mapping   *)
(* for a root commit) disagree, each once; later parents do not matter.     *)
C3_DiffIsDisagreement ==
    \A c \in Recorded :
        DiffDecodes(c) =>
            /\ Range(graph_data.commits[c].files) = Disagree(TreeOfCommit(c), BaseTree(c))
            /\ NoDuplicates(graph_data.commits[c].files)
            /\ (HeaderIndexes(c, "parent") = {} =>
                   Range(graph_data.commits[c].files)
                     = {TreeOfCommit(c).ent[i][2] : i \in 1..Len(TreeOfCommit(c).ent)})
            /\ (TreeOfCommit(c) = BaseTree(c) => graph_data.commits[c].files = <<>>)

\* a merge commit whose tree equals its second parent's tree and differs from
\* its first parent's tree in two names, with its diff recorded
C3_Witness ==
    \E c \in Recorded :
        /\ Cardinality(HeaderIndexes(c, "parent")) >= 2
        /\ DiffDecodes(c)
        /\ TreeOfCommit(objects[c][SetMax(HeaderIndexes(c, "parent"))].sha) = TreeOfCommit(c)
        /\ Len(graph_data.commits[c].files) = 2

(* C4: when the diff of a walked commit fails with any error while a tree   *)
(* is decoded, the commit is still recorded with an empty changed list and  *)
(* every other walked commit is still diffed and recorded.                  *)
BuildOver == pc \in {"dot", "done", "crash"}

C4_DiffFailureContained ==
    /\ \A c \in Range(calls.diff) :
          /\ c \in Recorded
          /\ ~DiffDecodes(c) => graph_data.commits[c].files = <<>>
    /\ BuildOver => Range(commits) \subseteq Recorded

(* C5: no key is both a file node and a directory node (and no commit key   *)
(* is either), also when a changed top-level name is a subtree.             *)
C5_NodeClassesDisjoint ==
    /\ graph_data.files \cap graph_data.dirs = {}
    /\ {CommitKey(c) : c \in Recorded} \cap (graph_data.files \cup graph_data.dirs) = {}

(* C8: when repository validation fails (.git or HEAD absent, or HEAD names *)
(* a ref file that does not exist) the run exits with an error and no       *)
(* diff, enumeration, node or edge is ever made.                            *)
ValidationFails ==
    \/ ~fs.git
    \/ fs.head = "absent"
    \/ fs.head = "ref" /\ fs.ref = "absent"

C8_ValidationFailureAborts ==
    ValidationFails =>
        /\ pc \in {"main", "exit1"}
        /\ calls = [diff |-> <<>>, enum |-> <<>>]
        /\ graph_data = EmptyGraphData
        /\ dot = EmptyDot

C8_Witness ==
    /\ pc = "exit1"
    /\ fs.repo /\ fs.git /\ fs.head = "ref" /\ fs.ref = "absent"

(* C9: the enumeration is invoked at most once, exactly once in a run that  *)
(* builds its graph, and always on the commit HEAD resolves to, which is    *)
(* the first element of the walk's result.                                  *)
C9_EnumeratedOnceAtHead ==
    /\ Len(calls.enum) <= 1
    /\ pc \in {"dot", "done"} => Len(calls.enum) = 1
    /\ commits # <<>> => commits[1] = HeadCommit
    /\ \A i \in 1..Len(calls.enum) : calls.enum[i] = HeadCommit

\* a finished build of a two-commit history whose head is not the first hash
C9_Witness ==
    /\ pc = "done"
    /\ Len(commits) >= 2
    /\ HeadCommit # "c1"
    /\ calls.enum = <<HeadCommit>>

----------------------------------------------------------------------------
(* The tree body decoder on bytes (a byte is 0..255, a str of ASCII         *)
(* characters is the sequence of its code points)                           *)

SP == 32
NUL == 0

HexDigits == <<"0", "1", "2", "3", "4", "5", "6", "7",
               "8", "9", "a", "b", "c", "d", "e", "f">>

\* mutant: '{:x}' instead of '{:02x}'
Hex2_noPad(b) ==
    IF b < 16 THEN <<HexDigits[b + 1]>>
    ELSE <<HexDigits[(b \div 16) + 1], HexDigits[(b % 16) + 1]>>

\* line 115: '{:02x}'.format(b)
Hex2(b) == <<HexDigits[(b \div 16) + 1], HexDigits[(b % 16) + 1]>>

\* line 115: ''.join([... for b in hash_bytes])
RECURSIVE HexJoin(_)
HexJoin(bytes) ==
    IF bytes = <<>> THEN <<>> ELSE Hex2(Head(bytes)) \o HexJoin(Tail(bytes))

\* bytes.find(b, i): the first 0-based index >= i holding b, or -1
Find(bytes, b, i) ==
    LET S == {j \in i..(Len(bytes) - 1) : bytes[j + 1] = b}
    IN  IF S = {} THEN -1 ELSE CHOOSE j \in S : \A k \in S : j <= k

\* the while loop of lines 102-117, from cursor i, as the list of decoded
\* <<mode, name, object_hash>> records
RECURSIVE ReadTreeLoop(_, _, _)
ReadTreeLoop(bytes, i, records) ==
    IF ~(i < Len(bytes)) THEN records
    ELSE
    LET space_index == Find(bytes, SP, i)
    IN  IF space_index = -1 THEN records
        ELSE
        LET mode == Slice(bytes, i, space_index)
            i1 == space_index + 1
            null_index == Find(bytes, NUL, i1)
        IN  IF null_index = -1 THEN records
            ELSE
            LET name == Slice(bytes, i1, null_index)
                i2 == null_index + 1
                hash_bytes == Slice(bytes, i2, i2 + HashLen)
                object_hash == HexJoin(hash_bytes)
            IN  ReadTreeLoop(bytes, i2 + HashLen,
                             Append(records, <<mode, name, object_hash>>))

\* read_tree, lines 101-118, on a tree body: the dict name -> object_hash
read_tree_body(bytes) == TreeDict(ReadTreeLoop(bytes, 0, <<>>), 1, <<>>)

\* the tree body grammar: "<mode> <name>\0" followed by the 20 raw hash bytes
RECURSIVE EncodeTree(_)
EncodeTree(triples) ==
    IF triples = <<>> THEN <<>>
    ELSE Head(triples)[1] \o <<SP>> \o Head(triples)[2] \o <<NUL>> \o Head(triples)[3]
         \o EncodeTree(Tail(triples))

\* sample modes ("100644", "40000"), names ("a", "b c") and hashes with the
\* hexadecimal text of each written out
Modes == {<<49, 48, 48, 54, 52, 52>>, <<52, 48, 48, 48, 48>>}
Names == {<<97>>, <<98, 32, 99>>}

HashSamples ==
    {[bytes |-> [i \in 1..HashLen |-> 0],
      hex |-> [i \in 1..(2 * HashLen) |-> "0"]],
     [bytes |-> [i \in 1..HashLen |-> SP],
      hex |-> [i \in 1..(2 * HashLen) |-> IF i % 2 = 1 THEN "2" ELSE "0"]],
     [bytes |-> <<171, 0, 32, 15, 255, 9>> \o [i \in 1..(HashLen - 6) |-> 160],
      hex |-> <<"a", "b", "0", "0", "2", "0", "0", "f", "f", "f", "0", "9">>
                \o [i \in 1..(2 * HashLen - 12) |-> IF i % 2 = 1 THEN "a" ELSE "0"]]}

Triples == {<<m, n, h.bytes>> : m \in Modes, n \in Names, h \in HashSamples}

RECURSIVE ListsUpTo(_, _)
ListsUpTo(S, k) ==
    IF k = 0 THEN {<<>>}
    ELSE LET L == ListsUpTo(S, k - 1)
         IN  L \cup {Append(l, x) : l \in {m \in L : Len(m) = k - 1}, x \in S}

InitTree ==
    /\ pc = "tree"
    /\ tree_input \in ListsUpTo(Triples, MaxEntries)
    /\ content = <<>>
    /\ entries = <<>>
    /\ fs = ValidFs("c1")
    /\ objects = [c \in Commit |-> Body(OneFileTree, NoLines[c])]
    /\ commits = <<>> /\ visited = {} /\ stack = <<>>
    /\ graph_data = EmptyGraphData /\ idx = 0 /\ dot = EmptyDot
    /\ expanded = [h \in Commit \cup {NoObject} |-> 0]
    /\ calls = [diff |-> <<>>, enum |-> <<>>]

\* the tree object is written: its body is the encoding of the triples
WriteTree ==
    /\ pc = "tree"
    /\ content' = EncodeTree(tree_input)
    /\ pc' = "read_tree"
    /\ UNCHANGED <<fs, objects, commits, visited, stack, graph_data, idx, dot,
                   expanded, calls, tree_input, entries>>

\* read_tree decodes the body
ReadTree ==
    /\ pc = "read_tree"
    /\ entries' = read_tree_body(content)
    /\ pc' = "tree_read"
    /\ UNCHANGED <<fs, objects, commits, visited, stack, graph_data, idx, dot,
                   expanded, calls, tree_input, content>>

NextTree == WriteTree \/ ReadTree

SpecTree == InitTree /\ [][NextTree]_vars

----------------------------------------------------------------------------
HexOf(bytes) == (CHOOSE h \in HashSamples : h.bytes = bytes).hex

LowerHex == {HexDigits[i] : i \in 1..16}

FirstOccurrences == {i \in 1..Len(tree_input) :
                        \A j \in 1..(i - 1) : tree_input[j][2] # tree_input[i][2]}

LastOfName(n) == SetMax({i \in 1..Len(tree_input) : tree_input[i][2] = n})

====
